---- MODULE Spec2Model ----
(***************************************************************************)
(* A model of src/onnx/onnxmodel.rs: the node list an OnnxModel builds     *)
(* from a tract graph, the forward shape/quantization pass over it, the    *)
(* configuration sweep and the layout sweep.                               *)
(*                                                                         *)
(* Conventions.  An Option is a sequence of length 0 (None) or 1 (Some):   *)
(* None == <<>>, Some(v) == <<v>>.  Node indices are 0-based as in the     *)
(* code; Nth(s, i) reads a Vec at a 0-based index.  A panic and an Err     *)
(* return are both recorded in `failure`, with `how` telling them apart.   *)
(***************************************************************************)
EXTENDS Integers, Sequences, FiniteSets, TLC

VARIABLES
    model,        \* the tract graph: a sequence of raw nodes (OnnxModel.model)
    order,        \* what eval_order() returns for this load
    onnx_nodes,   \* OnnxModel.onnx_nodes
    last_shape,   \* OnnxModel.last_shape
    pc,           \* which sweep is running
    pos,          \* position of the running sweep in `order` (1-based)
    run,          \* how many times forward_shape_and_quantize_pass was started
    failure,      \* the failure that ended a sweep, or NoFailure
    configs,      \* the configs vector configure builds
    public_output,\* whether configure allocated the instance column
    x,            \* layout's running tensor
    load,         \* 1 for the first load of the file, 2 for the second
    snap          \* what earlier runs left: after the first pass, after the first load

vars == <<model, order, onnx_nodes, last_shape, pc, pos, run, failure,
          configs, public_output, x, load, snap>>

(***************************************************************************)
(* Bounds of the model.                                                    *)
(***************************************************************************)
MaxKernel == 3
MaxInSize == 4
MaxPad == 1
MaxStride == 2

(***************************************************************************)
(* Option, Vec and number helpers.                                         *)
(***************************************************************************)
None == <<>>
Some(v) == <<v>>
Nth(s, i) == s[i + 1]

RECURSIVE Product(_)
Product(s) == IF s = <<>> THEN 1 ELSE Head(s) * Product(Tail(s))

Max(a, b) == IF a >= b THEN a ELSE b

Abs(a) == IF a < 0 THEN -a ELSE a

RECURSIVE MaxAbs(_)
MaxAbs(s) == IF Len(s) = 1 THEN Abs(s[1]) ELSE Max(Abs(Head(s)), MaxAbs(Tail(s)))

(***************************************************************************)
(* output_max is an f32.  The values the pass produces are +inf, NaN and   *)
(* m / 128^e for naturals m, e (every division is by 128, a power of two,  *)
(* hence exact): <<m, e>> in lowest terms; Inf and NaN are tagged pairs.   *)
(***************************************************************************)
Inf == <<-1, 0>>
NaN == <<-2, 0>>
F32(n) == <<n, 0>>

RECURSIVE Norm(_)
Norm(f) ==
    IF f[1] = 0 THEN <<0, 0>>
    ELSE IF f[2] > 0 /\ f[1] % 128 = 0 THEN Norm(<<f[1] \div 128, f[2] - 1>>)
    ELSE f

FMul(a, b) ==
    IF a = NaN \/ b = NaN THEN NaN
    ELSE IF a = Inf THEN (IF b = <<0, 0>> THEN NaN ELSE Inf)
    ELSE IF b = Inf THEN (IF a = <<0, 0>> THEN NaN ELSE Inf)
    ELSE Norm(<<a[1] * b[1], a[2] + b[2]>>)

FDiv128(a) ==
    IF a = NaN \/ a = Inf THEN a ELSE Norm(<<a[1], a[2] + 1>>)

(***************************************************************************)
(* A Tensor<i32> is its dims and its contents; the contents are given by   *)
(* a short pattern repeated over the elements.                             *)
(***************************************************************************)
NoTensor == [dims |-> <<>>, data |-> <<>>]

\* ndarray_to_quantized(nav, shift, mult): each float times mult plus shift,
\* rounded to the nearest integer, halves away from zero.  Raw floats are
\* written in units of 1/256.
RoundDiv(n, d) ==
    IF n >= 0 THEN (2 * n + d) \div (2 * d) ELSE -((2 * (-n) + d) \div (2 * d))

RECURSIVE Pow2(_)
Pow2(n) == IF n = 0 THEN 1 ELSE 2 * Pow2(n - 1)

ndarray_to_quantized(nav, shift, mult) ==
    [dims |-> nav.dims,
     data |-> [i \in DOMAIN nav.data |-> RoundDiv(nav.data[i] * mult, 256) + shift]]

(***************************************************************************)
(* OpKind and the classification table of OnnxNode::new.                   *)
(***************************************************************************)
OpKinds == {"Affine", "Convolution", "ReLU", "ReLU64", "ReLU128", "Sigmoid",
            "Const", "Input", "Unknown"}

OpKindOf_ReluByAnyName(name) ==
    CASE name = "Gemm"    -> "Affine"
      [] name = "Conv"    -> "Convolution"
      [] name = "ConvHir" -> "Convolution"
      [] name = "Clip"    -> "ReLU"
      [] name = "Relu"    -> "ReLU"
      [] name = "Sigmoid" -> "Sigmoid"
      [] name = "Const"   -> "Const"
      [] name = "Source"  -> "Input"
      [] OTHER            -> "Unknown"

OpKindOf(name) ==
    CASE name = "Gemm"    -> "Affine"
      [] name = "Conv"    -> "Convolution"
      [] name = "ConvHir" -> "Convolution"
      [] name = "Clip"    -> "ReLU"
      [] name = "Sigmoid" -> "Sigmoid"
      [] name = "Const"   -> "Const"
      [] name = "Source"  -> "Input"
      [] OTHER            -> "Unknown"

(***************************************************************************)
(* A raw tract node: its operator name, its input outlets, the shape fact  *)
(* of its output (fact = "closed": every dim concrete; "open": some dim    *)
(* symbolic, written -1; "err": as_concrete_finite fails), the value of a  *)
(* Const, and the padding and strides of a Conv.                           *)
(***************************************************************************)
Raw(name, inputs, fact, shape, value, padding, strides) ==
    [name |-> name, inputs |-> inputs, fact |-> fact, shape |-> shape,
     value |-> value, padding |-> padding, strides |-> strides]

\* node_output_shapes(&node) matched at OnnxNode::new: Ok(shapes) or an error.
node_output_shapes(raw) ==
    IF raw.fact = "err" THEN None
    ELSE IF raw.fact = "closed" THEN Some(<<Some(raw.shape)>>)
    ELSE Some(<<None>>)

\* The Input branch's else arm: the dims that concretize, the others dropped.
the_shape(raw) == SelectSeq(raw.shape, LAMBDA d : d >= 0)

ConstScale == 7
InputScale == 7
InputOutputMax == 256

OnnxNodeNew(raw) ==
    LET opkind == OpKindOf(raw.name)
        output_shapes == node_output_shapes(raw)
        t == ndarray_to_quantized(raw.value, 0, Pow2(ConstScale))
        dflt == [opkind |-> opkind,
                 output_max |-> Inf,
                 min_advice_cols |-> 1,
                 in_scale |-> 0,
                 out_scale |-> 0,
                 constant_value |-> None,
                 input_shapes |-> None,
                 output_shapes |-> output_shapes,
                 in_dims |-> None,
                 out_dims |-> None,
                 layer_hyperparams |-> None]
    IN  CASE opkind = "Const" ->
               [dflt EXCEPT !.out_scale = ConstScale,
                            !.out_dims = Some(t.dims),
                            !.output_max = F32(MaxAbs(t.data)),
                            !.constant_value = Some(t)]
          [] opkind = "Input" ->
               [dflt EXCEPT !.out_dims =
                                IF output_shapes # None
                                   /\ Len(output_shapes[1]) = 1
                                   /\ output_shapes[1][1] # None
                                THEN Some(output_shapes[1][1][1])
                                ELSE Some(the_shape(raw)),
                            !.output_max = F32(InputOutputMax),
                            !.in_scale = InputScale,
                            !.out_scale = InputScale]
          [] opkind = "Convolution" ->
               [dflt EXCEPT !.layer_hyperparams =
                                Some(<<raw.padding[1], raw.padding[2],
                                       raw.strides[1], raw.strides[2]>>)]
          [] OTHER -> dflt

\* The unwraps, asserts and panics of OnnxNode::new: a Const whose value is
\* not concrete or is empty, a Conv whose padding or strides are not given
\* explicitly.  The other arms have none.
NewPanics(raw) ==
    CASE OpKindOf(raw.name) = "Const" -> raw.value.data = <<>>
      [] OpKindOf(raw.name) = "Convolution" -> Len(raw.padding) < 2 \/ Len(raw.strides) < 2
      [] OTHER -> FALSE

(***************************************************************************)
(* extract_node_inputs: the wrapped nodes the node's input outlets name.   *)
(***************************************************************************)
extract_node_inputs(nodes, g, node_idx) ==
    [i \in DOMAIN Nth(g, node_idx).inputs |-> Nth(nodes, Nth(g, node_idx).inputs[i])]

(***************************************************************************)
(* forward_shape_and_quantize_pass, one node.  Each arm yields the node    *)
(* to swap in, or the failure that stops the pass before the swap; the     *)
(* checks come in the order the code runs them.                            *)
(***************************************************************************)
Done(n) == [fail |-> "none", node |-> n]
Stop(kind, n) == [fail |-> kind, node |-> n]

\* The two assert_eq! on the operands' scales.
ScalesAgree_NoBias(input_node, weight_node, bias_node) ==
    input_node.out_scale = weight_node.out_scale

ScalesAgree(input_node, weight_node, bias_node) ==
    /\ input_node.out_scale = weight_node.out_scale
    /\ input_node.out_scale = bias_node.out_scale

\* in_scale and out_scale of an Affine or Convolution node.
LinearScales_OwnScale(this_node, input_node, weight_node) ==
    [this_node EXCEPT !.in_scale = input_node.out_scale,
                      !.out_scale = weight_node.out_scale + this_node.out_scale]

LinearScales_WeightOnly(this_node, input_node, weight_node) ==
    [this_node EXCEPT !.in_scale = input_node.out_scale,
                      !.out_scale = weight_node.out_scale]

LinearScales(this_node, input_node, weight_node) ==
    [this_node EXCEPT !.in_scale = input_node.out_scale,
                      !.out_scale = weight_node.out_scale + input_node.out_scale]

AffineNode(this_node, inputs) ==
    IF Len(inputs) < 3 THEN Stop("IndexOutOfBounds", this_node)
    ELSE
    LET input_node == inputs[1]
        weight_node == inputs[2]
        bias_node == inputs[3]
    IN  IF weight_node.out_dims = None THEN Stop("UnwrapNone", this_node)
        ELSE IF Len(weight_node.out_dims[1]) < 2 THEN Stop("IndexOutOfBounds", this_node)
        ELSE
        LET in_dim == Nth(weight_node.out_dims[1], 1)
            out_dim == Nth(weight_node.out_dims[1], 0)
            shaped == [this_node EXCEPT
                          !.in_dims = Some(<<in_dim>>),
                          !.out_dims = Some(<<out_dim>>),
                          !.output_max = FMul(FMul(input_node.output_max,
                                                   weight_node.output_max),
                                              F32(in_dim))]
        IN  IF ~ScalesAgree(input_node, weight_node, bias_node)
            THEN Stop("ScaleMismatch", this_node)
            ELSE Done([LinearScales(shaped, input_node, weight_node) EXCEPT
                          !.min_advice_cols = Max(in_dim, out_dim)])

\* (input + 2 * padding - kernel) / stride + 1
ConvOutSize_NoPlusOne(input, padding, kernel, stride) ==
    (input + 2 * padding - kernel) \div stride

ConvOutSize_SinglePad(input, padding, kernel, stride) ==
    (input + padding - kernel) \div stride + 1

ConvOutSize(input, padding, kernel, stride) ==
    (input + 2 * padding - kernel) \div stride + 1

ConvolutionNode(this_node, inputs) ==
    IF Len(inputs) < 3 THEN Stop("IndexOutOfBounds", this_node)
    ELSE
    LET input_node == inputs[1]
        weight_node == inputs[2]
        bias_node == inputs[3]
    IN  IF weight_node.out_dims = None THEN Stop("UnwrapNone", this_node)
        ELSE IF Len(weight_node.out_dims[1]) < 4 THEN Stop("IndexOutOfBounds", this_node)
        ELSE IF this_node.layer_hyperparams = None THEN Stop("UnwrapNone", this_node)
        ELSE IF input_node.out_dims = None THEN Stop("UnwrapNone", this_node)
        ELSE IF Len(input_node.out_dims[1]) < 3 THEN Stop("IndexOutOfBounds", this_node)
        ELSE
        LET oihw == weight_node.out_dims[1]
            out_channels == Nth(oihw, 0)
            in_channels == Nth(oihw, 1)
            kernel_height == Nth(oihw, 2)
            kernel_width == Nth(oihw, 3)
            lhp == this_node.layer_hyperparams[1]
            padding_h == Nth(lhp, 0)
            padding_w == Nth(lhp, 1)
            stride_h == Nth(lhp, 2)
            stride_w == Nth(lhp, 3)
            input_height == Nth(input_node.out_dims[1], 1)
            input_width == Nth(input_node.out_dims[1], 2)
        IN  \* usize arithmetic: a negative difference overflows, a zero stride
            \* divides by zero
            IF input_height + 2 * padding_h < kernel_height
            THEN Stop("ArithmeticOverflow", this_node)
            ELSE IF stride_h = 0 THEN Stop("DivideByZero", this_node)
            ELSE IF input_width + 2 * padding_w < kernel_width
            THEN Stop("ArithmeticOverflow", this_node)
            ELSE IF stride_w = 0 THEN Stop("DivideByZero", this_node)
            ELSE
            LET out_height == ConvOutSize(input_height, padding_h, kernel_height, stride_h)
                out_width == ConvOutSize(input_width, padding_w, kernel_width, stride_w)
                shaped == [this_node EXCEPT
                              !.in_dims = input_node.out_dims,
                              !.out_dims = Some(<<out_channels, out_height, out_width>>),
                              !.output_max =
                                  FMul(FMul(input_node.output_max, weight_node.output_max),
                                       F32(kernel_height * kernel_width))]
            IN  IF ~ScalesAgree(input_node, weight_node, bias_node)
                THEN Stop("ScaleMismatch", this_node)
                ELSE Done([LinearScales(shaped, input_node, weight_node) EXCEPT
                              !.min_advice_cols =
                                  Max(1, Max(out_height * out_channels,
                                             input_height * in_channels))])

\* if this_node.in_scale == 14
RescaleAt(in_scale) == in_scale = 14

\* The body of that if: the 128-rescale variant.
Rescale128_KeepScale(this_node, input_node) ==
    [this_node EXCEPT !.opkind = "ReLU128",
                      !.output_max = FDiv128(input_node.output_max)]

Rescale128_SixBits(this_node, input_node) ==
    [this_node EXCEPT !.opkind = "ReLU128",
                      !.output_max = FDiv128(input_node.output_max),
                      !.out_scale = this_node.in_scale - 6]

Rescale128(this_node, input_node) ==
    [this_node EXCEPT !.opkind = "ReLU128",
                      !.output_max = FDiv128(input_node.output_max),
                      !.out_scale = this_node.in_scale - 7]

ReLUNode(this_node, inputs) ==
    IF Len(inputs) < 1 THEN Stop("IndexOutOfBounds", this_node)
    ELSE
    LET input_node == inputs[1]
        passed == [this_node EXCEPT
                      !.in_dims = input_node.out_dims,
                      !.out_dims = input_node.out_dims,
                      !.input_shapes =
                          IF this_node.input_shapes = None
                          THEN Some(<<input_node.out_dims>>)
                          ELSE this_node.input_shapes,
                      !.output_shapes =
                          IF this_node.output_shapes = None
                          THEN Some(<<input_node.out_dims>>)
                          ELSE this_node.output_shapes,
                      !.output_max = input_node.output_max,
                      !.in_scale = input_node.out_scale]
        scaled == IF RescaleAt(passed.in_scale) THEN Rescale128(passed, input_node)
                  ELSE passed
    IN  IF scaled.in_dims = None THEN Stop("UnwrapNone", this_node)
        ELSE IF Len(scaled.in_dims[1]) < 1 THEN Stop("IndexOutOfBounds", this_node)
        ELSE Done([scaled EXCEPT !.min_advice_cols = Max(1, Nth(scaled.in_dims[1], 0))])

ForwardNode(nodes, g, node_idx) ==
    LET this_node == Nth(nodes, node_idx)
        inputs == extract_node_inputs(nodes, g, node_idx)
    IN  CASE this_node.opkind = "Affine" -> AffineNode(this_node, inputs)
          [] this_node.opkind = "Convolution" -> ConvolutionNode(this_node, inputs)
          [] this_node.opkind = "ReLU" -> ReLUNode(this_node, inputs)
          [] OTHER -> Done(this_node)

(***************************************************************************)
(* configure_node.  A config is the variant, the fixed columns allocated   *)
(* for it, the windows sliced from the advice pool (get_slice's ranges and *)
(* dims) and the parameters handed to the layer's configure.               *)
(***************************************************************************)
Variants == {"Affine", "Conv", "ReLU", "ReLU64", "ReLU128", "Sigmoid",
             "Const", "Input", "NotConfigured"}

Bits == 15

get_slice(lo, hi, dims) == [range |-> <<lo, hi>>, dims |-> dims]

Config(variant, fixed, slices, params) ==
    [variant |-> variant, fixed |-> fixed, slices |-> slices, params |-> params]

NotConfigured == Config("NotConfigured", <<>>, <<>>, <<>>)

Configured(conf, shape) == [fail |-> "none", conf |-> conf, last_shape |-> shape]
NotDone(kind, shape) == [fail |-> kind, conf |-> NotConfigured, last_shape |-> shape]

\* OnnxNode::output_shapes, as the Sigmoid arm reads it: the second dim of
\* the first output's concrete shape.
SigmoidLength(raw) ==
    IF raw.fact # "closed" THEN [fail |-> "UnwrapNone", length |-> 0]
    ELSE IF Len(raw.shape) < 2 THEN [fail |-> "IndexOutOfBounds", length |-> 0]
    ELSE [fail |-> "none", length |-> Nth(raw.shape, 1)]

EltwiseConfig_PlainReLU(variant, length) ==
    Config("ReLU", <<>>, <<get_slice(0, length, <<length>>)>>, <<Bits>>)

EltwiseConfig(variant, length) ==
    Config(variant, <<>>, <<get_slice(0, length, <<length>>)>>, <<Bits>>)

\* Which arms of configure_node write self.last_shape, and what.
LastShapeAfter_ConstToo(node, shape) ==
    CASE node.opkind = "Affine" -> <<Nth(node.out_dims[1], 0)>>
      [] node.opkind = "Convolution" -> node.out_dims[1]
      [] node.opkind = "Const" -> node.out_dims[1]
      [] OTHER -> shape

LastShapeAfter(node, shape) ==
    CASE node.opkind = "Affine" -> <<Nth(node.out_dims[1], 0)>>
      [] node.opkind = "Convolution" -> node.out_dims[1]
      [] OTHER -> shape

configure_node(nodes, g, node_idx, shape) ==
    LET node == Nth(nodes, node_idx)
        raw == Nth(g, node_idx)
        length == Product(shape)
    IN  CASE node.opkind = "Affine" ->
               IF node.in_dims = None \/ node.out_dims = None
               THEN NotDone("UnwrapNone", shape)
               ELSE LET in_dim == Nth(node.in_dims[1], 0)
                        out_dim == Nth(node.out_dims[1], 0)
                    IN  Configured(
                            Config("Affine", <<>>,
                                   <<get_slice(0, out_dim, <<out_dim, in_dim>>),
                                     get_slice(out_dim + 1, out_dim + 2, <<out_dim>>),
                                     get_slice(out_dim + 2, out_dim + 3, <<in_dim>>),
                                     get_slice(out_dim + 3, out_dim + 4, <<out_dim>>)>>,
                                   <<>>),
                            LastShapeAfter(node, shape))
          [] node.opkind = "Convolution" ->
               IF Len(raw.inputs) < 2 THEN NotDone("IndexOutOfBounds", shape)
               ELSE IF node.in_dims = None \/ node.out_dims = None
               THEN NotDone("UnwrapNone", shape)
               ELSE IF Len(node.in_dims[1]) < 3 THEN NotDone("IndexOutOfBounds", shape)
               ELSE
               LET weight_node == extract_node_inputs(nodes, g, node_idx)[2]
                   input_dims == node.in_dims[1]
                   output_dims == node.out_dims[1]
                   in_channels == Nth(input_dims, 0)
                   in_height == Nth(input_dims, 1)
                   in_width == Nth(input_dims, 2)
                   out_channels == Nth(output_dims, 0)
                   out_height == Nth(output_dims, 1)
                   out_width == Nth(output_dims, 2)
               IN  IF weight_node.out_dims = None THEN NotDone("UnwrapNone", shape)
                   ELSE IF Len(weight_node.out_dims[1]) < 4
                   THEN NotDone("IndexOutOfBounds", shape)
                   ELSE
                   LET oihw == weight_node.out_dims[1]
                       ker_o == Nth(oihw, 0)
                       ker_i == Nth(oihw, 1)
                       kernel_height == Nth(oihw, 2)
                       kernel_width == Nth(oihw, 3)
                   IN  IF ker_i # in_channels \/ ker_o # out_channels
                       THEN NotDone("KernelChannels", shape)
                       ELSE Configured(
                               Config("Conv",
                                      <<<<out_channels, in_channels,
                                          kernel_height, kernel_width>>,
                                        <<out_channels>>>>,
                                      <<get_slice(0, in_height * in_channels,
                                                  <<in_channels, in_height, in_width>>),
                                        get_slice(0, out_height * out_channels,
                                                  <<out_channels, out_height, out_width>>)>>,
                                      node.layer_hyperparams[1]),
                               LastShapeAfter(node, shape))
          [] node.opkind \in {"ReLU", "ReLU64", "ReLU128"} ->
               Configured(EltwiseConfig(node.opkind, length), LastShapeAfter(node, shape))
          [] node.opkind = "Sigmoid" ->
               IF SigmoidLength(raw).fail # "none"
               THEN NotDone(SigmoidLength(raw).fail, shape)
               ELSE Configured(EltwiseConfig("Sigmoid", SigmoidLength(raw).length),
                               LastShapeAfter(node, shape))
          [] node.opkind = "Const" ->
               Configured(Config("Const", <<>>, <<>>, <<>>), LastShapeAfter(node, shape))
          [] node.opkind = "Input" ->
               Configured(Config("Input", <<>>, <<>>, <<>>), LastShapeAfter(node, shape))
          [] OTHER -> NotDone("NotImplemented", shape)

(***************************************************************************)
(* layout_node.  A ValTensor is the list of the nodes whose layouts        *)
(* produced it, oldest first; <<>> is the input the prover supplies.       *)
(***************************************************************************)
\* The arms of the match on (node.opkind, config) that lay something out.
ConfigMatches_AnyReLU(opkind, variant) ==
    \/ opkind = "Affine" /\ variant = "Affine"
    \/ opkind = "Convolution" /\ variant = "Conv"
    \/ opkind \in {"ReLU", "ReLU64", "ReLU128"} /\ variant \in {"ReLU", "ReLU64", "ReLU128"}
    \/ opkind = "Sigmoid" /\ variant = "Sigmoid"
    \/ opkind = "Input" /\ variant = "Input"
    \/ opkind = "Const" /\ variant = "Const"

ConfigMatches(opkind, variant) ==
    \/ opkind = "Affine" /\ variant = "Affine"
    \/ opkind = "Convolution" /\ variant = "Conv"
    \/ opkind = "ReLU" /\ variant = "ReLU"
    \/ opkind = "ReLU64" /\ variant = "ReLU64"
    \/ opkind = "ReLU128" /\ variant = "ReLU128"
    \/ opkind = "Sigmoid" /\ variant = "Sigmoid"
    \/ opkind = "Input" /\ variant = "Input"
    \/ opkind = "Const" /\ variant = "Const"

Laid(out) == [fail |-> "none", how |-> "none", out |-> out]
Refused(kind, how) == [fail |-> kind, how |-> how, out |-> None]

layout_node(nodes, g, node_idx, input, config) ==
    LET node == Nth(nodes, node_idx)
        inputs == extract_node_inputs(nodes, g, node_idx)
    IN  IF ~ConfigMatches(node.opkind, config.variant)
        THEN Refused("ConfigOpMismatch", "panic")
        ELSE IF node.opkind \in {"Affine", "Convolution"}
        THEN IF Len(inputs) < 3 THEN Refused("IndexOutOfBounds", "panic")
             ELSE IF inputs[2].constant_value = None \/ inputs[3].constant_value = None
             THEN Refused("ConstantNotLoaded", "err")
             ELSE Laid(Some(Append(input, node_idx)))
        ELSE IF node.opkind \in {"Input", "Const"}
        THEN Laid(None)
        ELSE Laid(Some(Append(input, node_idx)))

(***************************************************************************)
(* The graphs the model loads.  Every graph has the Source node 0, the     *)
(* Const nodes 1 (weight) and 2 (bias), and one or two layer nodes 3, 4.   *)
(***************************************************************************)
Tensor(dims, data) == [dims |-> dims, data |-> data]

Source(fact, shape) == Raw("Source", <<>>, fact, shape, NoTensor, <<>>, <<>>)
Const(t) == Raw("Const", <<>>, "closed", t.dims, t, <<>>, <<>>)
Layer(name, inputs, geo) ==
    Raw(name, inputs, geo.layer_fact, geo.layer_shape, NoTensor, geo.padding, geo.strides)

Geo(in_fact, in_shape, w, b, linear, padding, strides, layer_fact, layer_shape) ==
    [in_fact |-> in_fact, in_shape |-> in_shape, w |-> w, b |-> b, linear |-> linear,
     padding |-> padding, strides |-> strides,
     layer_fact |-> layer_fact, layer_shape |-> layer_shape]

\* A small dense layer; the 784 -> 10 dense layer; the 3x32x32 image under
\* a 3x3 kernel with a symbolic batch dim.  `linear` names the operator the
\* weight is shaped for.
Geos ==
    {Geo("closed", <<3>>, Tensor(<<2, 3>>, <<128, -64>>), Tensor(<<2>>, <<256, 1>>),
         {"Gemm"}, <<0, 0>>, <<1, 1>>, "closed", <<1, 2>>),
     Geo("closed", <<784>>, Tensor(<<10, 784>>, <<3, -5>>), Tensor(<<10>>, <<-256, 2>>),
         {"Gemm"}, <<0, 0>>, <<1, 1>>, "open", <<>>),
     Geo("open", <<-1, 3, 32, 32>>, Tensor(<<8, 3, 3, 3>>, <<64, -3>>), Tensor(<<8>>, <<5, 0>>),
         {"Conv", "ConvHir"}, <<1, 1>>, <<1, 1>>, "err", <<>>)}

Unary == {"Clip", "Sigmoid", "Relu"}

\* The layer nodes that can sit at index k: a unary op on an earlier
\* non-Const node, or a linear op on the weight node with either an earlier
\* non-Const activation and the bias node, or the Source as activation and
\* an earlier layer's output as bias.
Layers(k, geo) ==
    LET acts == {0} \cup 3 .. (k - 1)
    IN  {Layer(n, <<a>>, geo) : n \in Unary, a \in acts}
        \cup {Layer(n, <<a, 1, 2>>, geo) : n \in geo.linear, a \in acts}
        \cup {Layer(n, <<0, 1, b>>, geo) : n \in geo.linear, b \in 3 .. (k - 1)}

TopologyGraphs ==
    UNION {
        {<<Source(geo.in_fact, geo.in_shape), Const(geo.w), Const(geo.b), l1>>
            : l1 \in Layers(3, geo)}
        \cup
        {<<Source(geo.in_fact, geo.in_shape), Const(geo.w), Const(geo.b), l1, l2>>
            : l1 \in Layers(3, geo), l2 \in Layers(4, geo)}
        : geo \in Geos}

\* Source -> Conv -> Clip over every geometry within the bounds; the input
\* is never smaller than the kernel.
Axis == [input : MaxKernel .. MaxInSize, kernel : 1 .. MaxKernel,
         padding : 0 .. MaxPad, stride : 0 .. MaxStride]
UnitAxis(input) == [input |-> input, kernel |-> 1, padding |-> 0, stride |-> 1]

ShapeGraph(h, w) ==
    LET geo == Geo("closed", <<1, h.input, w.input>>,
                   Tensor(<<2, 1, h.kernel, w.kernel>>, <<128, -64>>),
                   Tensor(<<2>>, <<256, 1>>), {"Conv"},
                   <<h.padding, w.padding>>, <<h.stride, w.stride>>, "open", <<>>)
    IN  <<Source(geo.in_fact, geo.in_shape), Const(geo.w), Const(geo.b),
          Layer("Conv", <<0, 1, 2>>, geo), Layer("Clip", <<3>>, geo)>>

ShapeGraphs ==
    {ShapeGraph(a, a) : a \in Axis}
    \cup {ShapeGraph(a, UnitAxis(MaxInSize)) : a \in Axis}
    \cup {ShapeGraph(UnitAxis(MaxInSize), a) : a \in Axis}

(***************************************************************************)
(* eval_order: a linear extension of the graph.  tract fixes none, so any  *)
(* one may come back.                                                      *)
(***************************************************************************)
Ids(g) == 0 .. (Len(g) - 1)
Range(s) == {s[i] : i \in DOMAIN s}

\* The node ids from last to first, whatever the edges.
Extensions_Reversed(g, prefixes) == {[i \in 1 .. Len(g) |-> Len(g) - i]}

RECURSIVE Extensions(_, _)
Extensions(g, prefixes) ==
    IF \A p \in prefixes : Len(p) = Len(g) THEN prefixes
    ELSE Extensions(g, UNION {
             {Append(p, n) : n \in {m \in Ids(g) \ Range(p) :
                                      Range(Nth(g, m).inputs) \subseteq Range(p)}}
             : p \in prefixes})

EvalOrders(g) == Extensions(g, {<<>>})

Canonical(g) == [i \in 1 .. Len(g) |-> i - 1]

NonConst(g, o) == SelectSeq(o, LAMBDA n : Nth(g, n).name # "Const")

\* The orders that differ from o only in where the Const nodes stand.
ConstPermutations(g, o) == {o2 \in EvalOrders(g) : NonConst(g, o2) = NonConst(g, o)}

(***************************************************************************)
(* The state machine.                                                      *)
(***************************************************************************)
NoFailure == [kind |-> "none", how |-> "none", site |-> "none", carries_node |-> FALSE]
Panic(kind, site) == [kind |-> kind, how |-> "panic", site |-> site, carries_node |-> FALSE]
Failed(kind, how, site) == [kind |-> kind, how |-> how, site |-> site, carries_node |-> FALSE]

NoSnap == [pass1 |-> None, load1 |-> None]

\* OnnxModel::new up to the call of the pass.
Loaded(g, o) ==
    /\ model = g
    /\ order = o
    /\ onnx_nodes = [i \in 1 .. Len(g) |-> OnnxNodeNew(g[i])]
    /\ last_shape = <<0>>
    /\ pc = "quantize"
    /\ pos = 1
    /\ run = 1
    /\ failure = NoFailure
    /\ configs = <<>>
    /\ public_output = FALSE
    /\ x = <<>>
    /\ load = 1
    /\ snap = NoSnap

Init ==
    \/ \E g \in TopologyGraphs : \E o \in EvalOrders(g) : Loaded(g, o)
    \/ \E g \in ShapeGraphs : Loaded(g, Canonical(g))

\* One iteration of the loop of forward_shape_and_quantize_pass.
QuantizeNode ==
    /\ pc = "quantize"
    /\ pos <= Len(order)
    /\ LET node_idx == order[pos]
           r == ForwardNode(onnx_nodes, model, node_idx)
       IN  IF r.fail = "none"
           THEN /\ onnx_nodes' = [onnx_nodes EXCEPT ![node_idx + 1] = r.node]
                /\ pos' = pos + 1
                /\ UNCHANGED <<pc, failure>>
           ELSE /\ pc' = "aborted"
                /\ failure' = Panic(r.fail, "quantize")
                /\ UNCHANGED <<onnx_nodes, pos>>
    /\ UNCHANGED <<model, order, last_shape, run, configs, public_output, x, load, snap>>

\* The loop is over: Ok(()).
QuantizeReturn ==
    /\ pc = "quantize"
    /\ pos > Len(order)
    /\ pc' = "quantized"
    /\ UNCHANGED <<model, order, onnx_nodes, last_shape, pos, run, failure,
                   configs, public_output, x, load, snap>>

\* The caller runs the pass again over the list the first run left.
QuantizeAgain ==
    /\ pc = "quantized"
    /\ run = 1
    /\ load = 1
    /\ snap' = [snap EXCEPT !.pass1 = Some(onnx_nodes)]
    /\ run' = 2
    /\ pos' = 1
    /\ pc' = "quantize"
    /\ UNCHANGED <<model, order, onnx_nodes, last_shape, failure,
                   configs, public_output, x, load>>

\* configure, up to its loop.
ConfigureStart ==
    /\ pc = "quantized"
    /\ pc' = "configure"
    /\ pos' = 1
    /\ configs' = [i \in 1 .. Len(order) |-> NotConfigured]
    /\ UNCHANGED <<model, order, onnx_nodes, last_shape, run, failure,
                   public_output, x, load, snap>>

\* One iteration of the loop of configure.
ConfigureNode ==
    /\ pc = "configure"
    /\ pos <= Len(order)
    /\ LET node_idx == order[pos]
           r == configure_node(onnx_nodes, model, node_idx, last_shape)
       IN  IF r.fail # "none"
           THEN /\ pc' = "aborted"
                /\ failure' = Panic(r.fail, "configure")
                /\ UNCHANGED <<configs, last_shape, pos>>
           ELSE IF node_idx >= Len(configs)
           THEN /\ pc' = "aborted"
                /\ failure' = Panic("IndexOutOfBounds", "configure")
                /\ last_shape' = r.last_shape
                /\ UNCHANGED <<configs, pos>>
           ELSE /\ configs' = [configs EXCEPT ![node_idx + 1] = r.conf]
                /\ last_shape' = r.last_shape
                /\ pos' = pos + 1
                /\ UNCHANGED <<pc, failure>>
    /\ UNCHANGED <<model, order, onnx_nodes, run, public_output, x, load, snap>>

\* After the loop: the instance column, and the OnnxModelConfig.
ConfigureReturn ==
    /\ pc = "configure"
    /\ pos > Len(order)
    /\ public_output' = TRUE
    /\ pc' = "configured"
    /\ UNCHANGED <<model, order, onnx_nodes, last_shape, pos, run, failure,
                   configs, x, load, snap>>

\* layout, up to its loop, on the model and the config configure returned.
LayoutStart ==
    /\ pc = "configured"
    /\ pc' = "layout"
    /\ pos' = 1
    /\ x' = <<>>
    /\ UNCHANGED <<model, order, onnx_nodes, last_shape, run, failure,
                   configs, public_output, load, snap>>

\* One iteration of the loop of layout.
LayoutNode ==
    /\ pc = "layout"
    /\ pos <= Len(order)
    /\ LET node_idx == order[pos]
       IN  IF node_idx >= Len(configs)
           THEN /\ pc' = "aborted"
                /\ failure' = Panic("IndexOutOfBounds", "layout")
                /\ UNCHANGED <<x, pos>>
           ELSE LET r == layout_node(onnx_nodes, model, node_idx, x, Nth(configs, node_idx))
                IN  IF r.fail # "none"
                    THEN /\ pc' = IF r.how = "panic" THEN "aborted" ELSE "returned_err"
                         /\ failure' = Failed(r.fail, r.how, "layout")
                         /\ UNCHANGED <<x, pos>>
                    ELSE /\ x' = IF r.out = None THEN x ELSE r.out[1]
                         /\ pos' = pos + 1
                         /\ UNCHANGED <<pc, failure>>
    /\ UNCHANGED <<model, order, onnx_nodes, last_shape, run, configs,
                   public_output, load, snap>>

LayoutReturn ==
    /\ pc = "layout"
    /\ pos > Len(order)
    /\ pc' = "laid_out"
    /\ UNCHANGED <<model, order, onnx_nodes, last_shape, pos, run, failure,
                   configs, public_output, x, load, snap>>

\* The same file is loaded again; eval_order may now place the Const nodes
\* elsewhere.
Reload ==
    /\ load = 1
    /\ pc \in {"configured", "aborted"}
    /\ \E o2 \in IF model \in ShapeGraphs THEN {order} ELSE ConstPermutations(model, order) :
           order' = o2
    /\ snap' = [snap EXCEPT !.load1 = Some([onnx_nodes |-> onnx_nodes,
                                             configs |-> configs,
                                             last_shape |-> last_shape,
                                             reordered |-> order' # order,
                                             pc |-> pc,
                                             failure |-> failure])]
    /\ load' = 2
    /\ onnx_nodes' = [i \in 1 .. Len(model) |-> OnnxNodeNew(model[i])]
    /\ last_shape' = <<0>>
    /\ pc' = "quantize"
    /\ pos' = 1
    /\ run' = 1
    /\ failure' = NoFailure
    /\ configs' = <<>>
    /\ public_output' = FALSE
    /\ x' = <<>>
    /\ UNCHANGED model

Next ==
    \/ QuantizeNode
    \/ QuantizeReturn
    \/ QuantizeAgain
    \/ ConfigureStart
    \/ ConfigureNode
    \/ ConfigureReturn
    \/ LayoutStart
    \/ LayoutNode
    \/ LayoutReturn
    \/ Reload

Spec == Init /\ [][Next]_vars

(***************************************************************************)
(* layout_node on its own: the node kind, the config variant and the       *)
(* running tensor are drawn freely, and layout is run over that one node.  *)
(***************************************************************************)
PairGraphs ==
    LET geo == CHOOSE gg \in Geos : gg.in_shape = <<3>>
    IN  {<<Source(geo.in_fact, geo.in_shape), Const(geo.w), Const(geo.b),
           Layer("Gemm", ins, geo)>> : ins \in {<<0, 1, 2>>, <<0, 1, 0>>}}

InitLayoutNode ==
    \E g \in PairGraphs, opkind \in OpKinds, variant \in Variants, input \in {<<>>, <<0>>} :
        /\ model = g
        /\ order = <<3>>
        /\ onnx_nodes = [i \in 1 .. Len(g) |->
                            IF i = 4 THEN [OnnxNodeNew(g[i]) EXCEPT !.opkind = opkind]
                            ELSE OnnxNodeNew(g[i])]
        /\ last_shape = <<0>>
        /\ pc = "layout"
        /\ pos = 1
        /\ run = 1
        /\ failure = NoFailure
        /\ configs = [i \in 1 .. Len(g) |->
                         IF i = 4 THEN Config(variant, <<>>, <<>>, <<>>) ELSE NotConfigured]
        /\ public_output = TRUE
        /\ x = input
        /\ load = 1
        /\ snap = NoSnap

NextLayoutNode ==
    \/ LayoutNode
    \/ LayoutReturn

SpecLayoutNode == InitLayoutNode /\ [][NextLayoutNode]_vars

(***************************************************************************)
(* What the claims speak of.                                               *)
(***************************************************************************)
InPass == pc = "quantize" \/ (pc = "aborted" /\ failure.site = "quantize")

\* The pass of this run has swapped node n in.
Written(n) ==
    IF InPass THEN \E i \in 1 .. (pos - 1) : order[i] = n
    ELSE n \in Range(order)

\* The pass of this run stopped at node n.
StoppedAt(n) == pc = "aborted" /\ failure.site = "quantize" /\ order[pos] = n

Preds(n) == extract_node_inputs(onnx_nodes, model, n)

IsLinear(n) ==
    /\ Nth(onnx_nodes, n).opkind \in {"Affine", "Convolution"}
    /\ Len(Nth(model, n).inputs) = 3

ScalesDiffer(n) ==
    \/ Preds(n)[1].out_scale # Preds(n)[2].out_scale
    \/ Preds(n)[1].out_scale # Preds(n)[3].out_scale
    \/ Preds(n)[2].out_scale # Preds(n)[3].out_scale

\* The shape computation that precedes the scale checks can complete.
ShapeComputable(n) ==
    LET a == Preds(n)[1]
        w == Preds(n)[2]
        lhp == Nth(onnx_nodes, n).layer_hyperparams
    IN  IF Nth(onnx_nodes, n).opkind = "Affine"
        THEN w.out_dims # None /\ Len(w.out_dims[1]) >= 2
        ELSE /\ w.out_dims # None /\ Len(w.out_dims[1]) >= 4
             /\ a.out_dims # None /\ Len(a.out_dims[1]) >= 3
             /\ lhp # None
             /\ lhp[1][3] >= 1 /\ lhp[1][4] >= 1
             /\ a.out_dims[1][2] + 2 * lhp[1][1] >= w.out_dims[1][3]
             /\ a.out_dims[1][3] + 2 * lhp[1][2] >= w.out_dims[1][4]

\* C1, as stated: at every Affine or Convolution node with predecessors
\* [activation, weight, bias] the pass fails with a scale mismatch if and
\* only if two of the three out_scale differ.
C1_AsStated ==
    \A n \in Ids(model) : IsLinear(n) =>
        /\ (StoppedAt(n) /\ failure.kind = "ScaleMismatch") => ScalesDiffer(n)
        /\ (ScalesDiffer(n) /\ (Written(n) \/ StoppedAt(n)))
               => (StoppedAt(n) /\ failure.kind = "ScaleMismatch")

\* C1, amended: at every Affine or Convolution node whose shape computation
\* (which runs before the scale checks) completes, the pass fails with a
\* scale mismatch if and only if two of the three out_scale differ; when the
\* three are equal the pass never fails for a scale reason, and when the
\* shape computation does not complete the pass fails for that reason.
C1_ScaleMismatchIff ==
    \A n \in Ids(model) : IsLinear(n) =>
        /\ (StoppedAt(n) /\ failure.kind = "ScaleMismatch") => ScalesDiffer(n)
        /\ (ScalesDiffer(n) /\ ShapeComputable(n) /\ (Written(n) \/ StoppedAt(n)))
               => (StoppedAt(n) /\ failure.kind = "ScaleMismatch")
        /\ (~ShapeComputable(n) /\ (Written(n) \/ StoppedAt(n)))
               => (StoppedAt(n) /\ failure.kind # "ScaleMismatch")

\* The pass stopped with a scale mismatch at a node whose activation and
\* weight agree and whose bias alone differs.
C1_Witness ==
    \E n \in Ids(model) :
        /\ IsLinear(n)
        /\ StoppedAt(n)
        /\ failure.kind = "ScaleMismatch"
        /\ Preds(n)[1].out_scale = Preds(n)[2].out_scale
        /\ Preds(n)[1].out_scale # Preds(n)[3].out_scale

IsClip(n) == OpKindOf(Nth(model, n).name) = "ReLU" /\ Len(Nth(model, n).inputs) >= 1

\* C2: a ReLU node the pass has processed is the 128-rescale variant iff its
\* in_scale, its predecessor's out_scale, is 14; then out_scale = in_scale - 7
\* and 128 * output_max is the predecessor's output_max; otherwise it is
\* still ReLU and its out_scale is the one OnnxNode::new gave it.  A ReLU
\* node the pass has not swapped in is still as OnnxNode::new left it.
C2_RescaleIff14 ==
    \A n \in Ids(model) : IsClip(n) =>
        LET node == Nth(onnx_nodes, n)
            p == Preds(n)[1]
            fresh == OnnxNodeNew(Nth(model, n))
        IN  IF Written(n)
            THEN /\ node.in_scale = p.out_scale
                 /\ (node.opkind = "ReLU128") <=> (node.in_scale = 14)
                 /\ node.in_scale = 14 =>
                        /\ node.out_scale = node.in_scale - 7
                        /\ FMul(node.output_max, F32(128)) = p.output_max
                 /\ node.in_scale # 14 =>
                        /\ node.opkind = "ReLU"
                        /\ node.out_scale = fresh.out_scale
            ELSE load = 2 \/ run = 2 \/ node = fresh

\* The pass has reclassified a ReLU node whose predecessor is an Affine node.
C2_Witness ==
    \E n \in Ids(model) :
        /\ IsClip(n)
        /\ Written(n)
        /\ Nth(onnx_nodes, n).opkind = "ReLU128"
        /\ Nth(onnx_nodes, n).out_scale = 7
        /\ Preds(n)[1].opkind = "Affine"

\* C3, as stated: after the pass every node that is still plain ReLU has
\* out_scale = in_scale = its predecessor's out_scale, and in_dims, out_dims
\* and output_max equal to the predecessor's out_dims and output_max.
C3_AsStated ==
    pc = "quantized" =>
        \A n \in Ids(model) :
            (IsClip(n) /\ Nth(onnx_nodes, n).opkind = "ReLU") =>
                LET node == Nth(onnx_nodes, n)
                    p == Preds(n)[1]
                IN  /\ node.in_scale = p.out_scale
                    /\ node.out_scale = node.in_scale
                    /\ node.in_dims = p.out_dims
                    /\ node.out_dims = p.out_dims
                    /\ node.output_max = p.output_max

\* The pass has gone over node n: swapped it in, or stopped at it.
PassedOver(n) == Written(n) \/ StoppedAt(n)

IsAffine(n) ==
    /\ Nth(onnx_nodes, n).opkind = "Affine"
    /\ Len(Nth(model, n).inputs) = 3

\* C4: an Affine node with predecessors [activation, weight, bias] of equal
\* out_scale that the pass has gone over has been swapped in with
\* in_dims = [weight.out_dims[1]], out_dims = [weight.out_dims[0]],
\* output_max = activation.output_max * weight.output_max * in_dim,
\* in_scale = activation.out_scale, out_scale = weight.out_scale +
\* activation.out_scale and min_advice_cols = max(in_dim, out_dim); and in
\* Source -> Affine -> ReLU with all three operands at scale 7 the Affine
\* node ends at out_scale 14 and the ReLU node as ReLU128 at out_scale 7.
C4_AffineMetadata ==
    /\ \A n \in Ids(model) :
           (IsAffine(n) /\ PassedOver(n) /\ ~ScalesDiffer(n)) =>
               LET node == Nth(onnx_nodes, n)
                   a == Preds(n)[1]
                   w == Preds(n)[2]
                   in_dim == w.out_dims[1][2]
                   out_dim == w.out_dims[1][1]
               IN  /\ Written(n)
                   /\ node.in_dims = Some(<<in_dim>>)
                   /\ node.out_dims = Some(<<out_dim>>)
                   /\ node.output_max = FMul(FMul(a.output_max, w.output_max), F32(in_dim))
                   /\ node.in_scale = a.out_scale
                   /\ node.out_scale = w.out_scale + a.out_scale
                   /\ node.min_advice_cols = Max(in_dim, out_dim)
    /\ (/\ pc = "quantized"
        /\ Len(model) = 5
        /\ model[4].name = "Gemm" /\ model[4].inputs = <<0, 1, 2>>
        /\ model[5].name = "Clip" /\ model[5].inputs = <<3>>
        /\ \A i \in 0 .. 2 : Nth(onnx_nodes, i).out_scale = 7)
       => /\ Nth(onnx_nodes, 3).out_scale = 14
          /\ Nth(onnx_nodes, 4).opkind = "ReLU128"
          /\ Nth(onnx_nodes, 4).out_scale = 7

\* The pass has finished Source -> Affine(784 -> 10) -> ReLU.
C4_Witness ==
    /\ pc = "quantized"
    /\ Len(model) = 5
    /\ model[4].name = "Gemm" /\ model[4].inputs = <<0, 1, 2>>
    /\ model[5].name = "Clip" /\ model[5].inputs = <<3>>
    /\ Nth(onnx_nodes, 3).in_dims = Some(<<784>>)
    /\ Nth(onnx_nodes, 3).out_dims = Some(<<10>>)
    /\ Nth(onnx_nodes, 3).out_scale = 14
    /\ Nth(onnx_nodes, 4).opkind = "ReLU128"

IsConv(n) ==
    /\ Nth(onnx_nodes, n).opkind = "Convolution"
    /\ Len(Nth(model, n).inputs) = 3

\* q = floor(a / b) + 1 for a >= 0 and b >= 1, without dividing.
FloorPlusOne(q, a, b) == (q - 1) * b <= a /\ a < q * b

\* The precondition of C5: activation dims [in_ch, in_h, in_w], weight dims
\* [out_ch, in_ch, kH, kW], strides >= 1 and in + 2 * pad >= k on each axis.
ConvGeometry(n) ==
    LET a == Preds(n)[1]
        w == Preds(n)[2]
        lhp == Nth(onnx_nodes, n).layer_hyperparams[1]
    IN  /\ a.out_dims # None /\ Len(a.out_dims[1]) = 3
        /\ w.out_dims # None /\ Len(w.out_dims[1]) = 4
        /\ lhp[3] >= 1 /\ lhp[4] >= 1
        /\ a.out_dims[1][2] + 2 * lhp[1] >= w.out_dims[1][3]
        /\ a.out_dims[1][3] + 2 * lhp[2] >= w.out_dims[1][4]

\* C5: a Convolution node within that precondition that the pass has gone
\* over is swapped in unless its scales differ, and then has out_dims =
\* [out_ch, floor((in_h + 2*pad_h - kH)/stride_h) + 1,
\*  floor((in_w + 2*pad_w - kW)/stride_w) + 1]; input [3,32,32] under kernel
\* [8,3,3,3], stride [1,1], padding [1,1] gives [8,32,32].
C5_ConvOutDims ==
    /\ \A n \in Ids(model) :
           (IsConv(n) /\ ConvGeometry(n) /\ PassedOver(n)) =>
               LET node == Nth(onnx_nodes, n)
                   a == Preds(n)[1].out_dims[1]
                   w == Preds(n)[2].out_dims[1]
                   lhp == node.layer_hyperparams[1]
               IN  /\ Written(n) <=> ~ScalesDiffer(n)
                   /\ Written(n) =>
                          /\ node.out_dims # None
                          /\ Len(node.out_dims[1]) = 3
                          /\ node.out_dims[1][1] = w[1]
                          /\ FloorPlusOne(node.out_dims[1][2],
                                          a[2] + 2 * lhp[1] - w[3], lhp[3])
                          /\ FloorPlusOne(node.out_dims[1][3],
                                          a[3] + 2 * lhp[2] - w[4], lhp[4])
    /\ \A n \in Ids(model) :
           (/\ IsConv(n) /\ Written(n)
            /\ Preds(n)[1].out_dims = Some(<<3, 32, 32>>)
            /\ Preds(n)[2].out_dims = Some(<<8, 3, 3, 3>>)
            /\ Nth(onnx_nodes, n).layer_hyperparams = Some(<<1, 1, 1, 1>>))
           => Nth(onnx_nodes, n).out_dims = Some(<<8, 32, 32>>)

\* The pass has swapped in a Convolution node whose strides differ on the
\* two axes and whose height does not divide evenly.
C5_Witness ==
    \E n \in Ids(model) :
        /\ IsConv(n) /\ Written(n) /\ ConvGeometry(n)
        /\ LET a == Preds(n)[1].out_dims[1]
               w == Preds(n)[2].out_dims[1]
               lhp == Nth(onnx_nodes, n).layer_hyperparams[1]
           IN  /\ lhp[3] = 2 /\ lhp[4] = 1
               /\ (a[2] + 2 * lhp[1] - w[3]) % 2 = 1

\* One axis of a swapped-in Convolution node: input, kernel, padding,
\* stride and the output size the pass computed.
ConvAxes ==
    UNION {
        LET node == Nth(onnx_nodes, n)
            a == Preds(n)[1].out_dims[1]
            w == Preds(n)[2].out_dims[1]
            lhp == node.layer_hyperparams[1]
        IN  {[input |-> a[2], kernel |-> w[3], padding |-> lhp[1], stride |-> lhp[3],
              out |-> node.out_dims[1][2]],
             [input |-> a[3], kernel |-> w[4], padding |-> lhp[2], stride |-> lhp[4],
              out |-> node.out_dims[1][3]]}
        : n \in {m \in Ids(model) : IsConv(m) /\ Written(m)}}

\* C6, as stated: with stride 1 the output size is in - k + 1 when pad = 0
\* and exactly in when pad = k / 2, for every k >= 1 and in >= k.
C6_AsStated ==
    \A ax \in ConvAxes :
        (ax.stride = 1 /\ ax.kernel >= 1 /\ ax.input >= ax.kernel) =>
            /\ ax.padding = 0 => ax.out = ax.input - ax.kernel + 1
            /\ ax.padding = ax.kernel \div 2 => ax.out = ax.input

\* C6, amended: with stride 1 the output size is in - k + 1 when pad = 0;
\* when pad = k / 2 it is exactly in for odd k and in + 1 for even k.
C6_SamePadding ==
    \A ax \in ConvAxes :
        (ax.stride = 1 /\ ax.kernel >= 1 /\ ax.input >= ax.kernel) =>
            /\ ax.padding = 0 => ax.out = ax.input - ax.kernel + 1
            /\ (ax.padding = ax.kernel \div 2 /\ ax.kernel % 2 = 1) => ax.out = ax.input
            /\ (ax.padding = ax.kernel \div 2 /\ ax.kernel % 2 = 0) => ax.out = ax.input + 1

\* The pass has computed an axis with stride 1, kernel 3 and padding 1.
C6_Witness ==
    \E ax \in ConvAxes :
        ax.stride = 1 /\ ax.kernel = 3 /\ ax.padding = 1 /\ ax.out = ax.input

\* The variant that belongs to an opkind; Unknown has none.
VariantOf(opkind) ==
    CASE opkind = "Affine" -> "Affine"
      [] opkind = "Convolution" -> "Conv"
      [] opkind = "ReLU" -> "ReLU"
      [] opkind = "ReLU64" -> "ReLU64"
      [] opkind = "ReLU128" -> "ReLU128"
      [] opkind = "Sigmoid" -> "Sigmoid"
      [] opkind = "Const" -> "Const"
      [] opkind = "Input" -> "Input"
      [] OTHER -> "none"

\* Layout has gone over the node at the head of the order.
LaidOver == pc \in {"aborted", "returned_err", "laid_out"} \/ (pc = "layout" /\ pos > 1)

\* C7 (under SpecLayoutNode): when the config variant is not the one that
\* belongs to the node's opkind, layout_node fails with a config/op mismatch
\* and the running tensor receives no output of the node.
C7_MismatchFails ==
    LET node_idx == order[1]
        opkind == Nth(onnx_nodes, node_idx).opkind
        variant == Nth(configs, node_idx).variant
    IN  (LaidOver /\ variant # VariantOf(opkind)) =>
            /\ pc = "aborted"
            /\ failure.kind = "ConfigOpMismatch"
            /\ node_idx \notin Range(x)

\* layout_node has refused a ReLU node given a ReLU128 config.
C7_Witness ==
    /\ pc = "aborted"
    /\ failure.kind = "ConfigOpMismatch"
    /\ Nth(onnx_nodes, order[1]).opkind = "ReLU"
    /\ Nth(configs, order[1]).variant = "ReLU128"

\* The failures of the error taxonomy that the sweeps can meet: operand
\* scales that disagree, an operator configure has no arm for, a config that
\* is not the node's.
TaxonomyFailures == {"ScaleMismatch", "NotImplemented", "ConfigOpMismatch"}

\* C8, as stated: every failure of the pipeline is returned to the caller as
\* a typed error that carries the offending node, and never aborts the
\* process.
C8_AsStated ==
    failure.kind \in TaxonomyFailures =>
        /\ failure.how = "err"
        /\ failure.carries_node
        /\ pc # "aborted"

\* C9: while and after the pass runs a second time over the list its first
\* run finalized, every node's metadata is what the first run left, and the
\* second run does not fail (the first did not).
C9_SecondRunSame ==
    run = 2 =>
        /\ snap.pass1 # None
        /\ onnx_nodes = snap.pass1[1]
        /\ ~(pc = "aborted" /\ failure.site = "quantize")

\* The second run has finished over a list that holds an Affine node and a
\* reclassified ReLU node.
C9_Witness ==
    /\ run = 2
    /\ pc = "quantized"
    /\ \E n \in Ids(model) : Nth(onnx_nodes, n).opkind = "ReLU128"
    /\ \E n \in Ids(model) : Nth(onnx_nodes, n).opkind = "Affine"

\* C10: when the file is loaded again and eval_order differs only in where
\* the Const nodes stand, the pass and configure end as they did the first
\* time: the same sweep fails with the same failure, or both leave the same
\* node metadata, the same quantized constants and the same configs.
C10_ConstOrderIrrelevant ==
    (load = 2 /\ pc \in {"configured", "aborted"}) =>
        LET first == snap.load1[1]
        IN  /\ pc = first.pc
            /\ failure = first.failure
            /\ pc = "configured" =>
                   /\ onnx_nodes = first.onnx_nodes
                   /\ configs = first.configs

\* The second load, under another order, has configured a graph with an
\* elementwise node.
C10_Witness ==
    /\ load = 2
    /\ pc = "configured"
    /\ snap.load1[1].reordered
    /\ \E i \in DOMAIN configs : configs[i].variant \in {"ReLU", "ReLU128", "Sigmoid"}

\* The classification table, name by name.
ClassificationTable ==
    [Gemm |-> "Affine", Conv |-> "Convolution", ConvHir |-> "Convolution",
     Clip |-> "ReLU", Sigmoid |-> "Sigmoid", Const |-> "Const", Source |-> "Input"]

\* The pass of the first run has not yet swapped node n in: the entry is
\* the one OnnxNode::new built.
AsBuilt(n) == run = 1 /\ ~Written(n)

\* C11: OnnxNode::new gives a node whose operator name is in the table the
\* opkind the table names (Gemm -> Affine, Conv and ConvHir -> Convolution,
\* Clip -> ReLU, Sigmoid -> Sigmoid, Const -> Const, Source -> Input); a
\* node of any other name gets Unknown, its construction meets no panic and
\* leaves the default metadata, and it stays Unknown through the sweeps.
C11_ClassificationTable ==
    \A n \in Ids(model) :
        LET raw == Nth(model, n)
            node == Nth(onnx_nodes, n)
        IN  /\ (raw.name \in DOMAIN ClassificationTable /\ AsBuilt(n))
                   => node.opkind = ClassificationTable[raw.name]
            /\ raw.name \notin DOMAIN ClassificationTable =>
                   /\ node.opkind = "Unknown"
                   /\ ~NewPanics(raw)
                   /\ node.out_scale = 0 /\ node.in_scale = 0
                   /\ node.out_dims = None /\ node.constant_value = None
                   /\ node.output_max = Inf

\* The pass has finished over a graph that holds a node of a name outside
\* the table next to a Gemm node.
C11_Witness ==
    /\ pc = "quantized"
    /\ \E n \in Ids(model) :
           Nth(model, n).name = "Relu" /\ Nth(onnx_nodes, n).opkind = "Unknown"
    /\ \E n \in Ids(model) :
           Nth(model, n).name = "Gemm" /\ Nth(onnx_nodes, n).opkind = "Affine"

\* Where node n stands in the evaluation order.
PosOf(n) == CHOOSE i \in DOMAIN order : order[i] = n

\* The kinds of node the pass swaps in as it found them.
NeverMutated == {"Const", "Input", "Sigmoid", "Unknown"}

\* Every predecessor a processed node read had been written before it in
\* this run, or is of a kind the pass never mutates.
ReadsFinalized ==
    \A n \in Ids(model) : PassedOver(n) =>
        \A m \in Range(Nth(model, n).inputs) :
            \/ PosOf(m) < PosOf(n)
            \/ Nth(onnx_nodes, m).opkind \in NeverMutated

\* A step of one run that changes the node list changes the one entry at
\* the head of the rest of the order, which this run had not written, and
\* changes no out_scale, out_dims or output_max that a node processed
\* earlier in this run has read.
WritesInOrder ==
    (onnx_nodes' # onnx_nodes /\ load' = load) =>
        LET m == order[pos]
        IN  /\ pc = "quantize"
            /\ pos' = pos + 1
            /\ ~Written(m)
            /\ \A i \in Ids(model) \ {m} : Nth(onnx_nodes', i) = Nth(onnx_nodes, i)
            /\ \A n \in Ids(model) :
                   (Written(n) /\ m \in Range(Nth(model, n).inputs)) =>
                       /\ Nth(onnx_nodes', m).out_scale = Nth(onnx_nodes, m).out_scale
                       /\ Nth(onnx_nodes', m).out_dims = Nth(onnx_nodes, m).out_dims
                       /\ Nth(onnx_nodes', m).output_max = Nth(onnx_nodes, m).output_max

\* C12: in one run of the pass no entry of the node list is written twice
\* (the order names each node once and the pass writes the entry its
\* position names), the writes follow the evaluation order, every
\* predecessor a processed node read was written earlier in the run or is a
\* Const, Input, Sigmoid or Unknown node, and no write changes the
\* out_scale, out_dims or output_max an earlier node of the run has read.
C12_WriteOnceInOrder ==
    /\ [](\A i, j \in DOMAIN order : order[i] = order[j] => i = j)
    /\ []ReadsFinalized
    /\ [][WritesInOrder]_vars

\* Under an order other than the canonical one the pass has swapped in a
\* ReLU node after the Affine or Convolution node it reads, and finished.
C12_Witness ==
    /\ pc = "quantized"
    /\ run = 1
    /\ order # Canonical(model)
    /\ \E n \in Ids(model) :
           /\ Nth(onnx_nodes, n).opkind = "ReLU128"
           /\ Preds(n)[1].opkind \in {"Affine", "Convolution"}
           /\ PosOf(Nth(model, n).inputs[1]) < PosOf(n)

\* configure has returned its OnnxModelConfig (layout may have run on it).
ConfigureReturned ==
    \/ pc \in {"configured", "layout", "laid_out", "returned_err"}
    \/ pc = "aborted" /\ failure.site = "layout"

\* C13: configure does not return when a node of the order is Unknown;
\* when it returns, every node index of the order has an entry in configs,
\* that entry is the variant of the node's opkind (Const and Input the
\* variants without resources) and none is NotConfigured; the public-output
\* column exists exactly once configure has gone over every node; and
\* layout on that configuration never meets a config/op mismatch.
C13_ConfigsAligned ==
    /\ (\E n \in Range(order) : Nth(onnx_nodes, n).opkind = "Unknown") => ~ConfigureReturned
    /\ ConfigureReturned =>
           \A n \in Range(order) :
               /\ n < Len(configs)
               /\ Nth(configs, n).variant = VariantOf(Nth(onnx_nodes, n).opkind)
               /\ Nth(configs, n).variant # "NotConfigured"
               /\ Nth(onnx_nodes, n).opkind \in {"Const", "Input"} =>
                      Nth(configs, n) = Config(Nth(onnx_nodes, n).opkind, <<>>, <<>>, <<>>)
    /\ public_output <=> ConfigureReturned
    /\ failure.kind # "ConfigOpMismatch"

\* Layout has run to its end on the configuration of a graph with an Affine
\* node and a reclassified ReLU node.
C13_Witness ==
    /\ pc = "laid_out"
    /\ public_output
    /\ \E n \in Range(order) : Nth(configs, n).variant = "ReLU128"
    /\ \E n \in Range(order) : Nth(configs, n).variant = "Affine"

Elementwise == {"ReLU", "ReLU64", "ReLU128", "Sigmoid"}

\* configure has just configured node n.
JustConfigured(n) == pc = "configure" /\ pos > 1 /\ order[pos - 1] = n

\* The Affine and Convolution nodes configure went over before position p.
LinearBefore(p) ==
    {order[i] : i \in {j \in 1 .. (p - 1) :
                           Nth(onnx_nodes, order[j]).opkind \in {"Affine", "Convolution"}}}

\* C14, as stated: when configure has configured a ReLU, rescale-variant or
\* Sigmoid node, the length of its witness window is the product of the
\* last-shape cursor, the cursor is its initial value or what an Affine or
\* Convolution node configured earlier wrote, and the length is the number
\* of elements of the out_dims of the node's own activation predecessor.
C14_AsStated ==
    \A n \in Ids(model) :
        (JustConfigured(n) /\ Nth(onnx_nodes, n).opkind \in Elementwise) =>
            LET length == Nth(configs, n).slices[1].dims[1]
                p == Preds(n)[1]
            IN  /\ length = Product(last_shape)
                /\ \/ last_shape = <<0>> /\ LinearBefore(pos) = {}
                   \/ \E m \in LinearBefore(pos) :
                          last_shape = LastShapeAfter(Nth(onnx_nodes, m), <<0>>)
                /\ p.out_dims # None => length = Product(p.out_dims[1])

\* Layout has just gone over node n.
JustLaid(n) == pc = "layout" /\ pos > 1 /\ order[pos - 1] = n

\* C15, as stated: layout leaves the running tensor as it was at Const and
\* Input nodes and replaces it with the node's output at every other node,
\* and the tensor each operator node was handed as its activation operand
\* is the output of that node's own activation predecessor, or the input
\* supplied from outside when that predecessor is the Input node.  (The
\* running tensor lists the nodes whose layouts produced it, so the tensor
\* handed to x[i] is the output of x[i - 1], or the outside input at i = 1.)
C15_AsStated ==
    (pc \in {"layout", "laid_out"}) =>
        /\ \A i \in DOMAIN x : Nth(onnx_nodes, x[i]).opkind \notin {"Const", "Input"}
        /\ \A n \in Ids(model) :
               (JustLaid(n) /\ Nth(onnx_nodes, n).opkind \notin {"Const", "Input"})
                   => (x # <<>> /\ x[Len(x)] = n)
        /\ \A i \in DOMAIN x :
               LET p == Nth(model, x[i]).inputs[1]
               IN  IF Nth(onnx_nodes, p).opkind = "Input" THEN i = 1
                   ELSE i > 1 /\ x[i - 1] = p

\* The pass of this load has run to its end without a failure.
PassCompleted ==
    \/ pc \in {"quantized", "configure", "configured", "layout", "laid_out", "returned_err"}
    \/ pc = "aborted" /\ failure.site # "quantize"

\* Every Affine and Convolution node takes Const nodes as weight and bias.
ConstParameters ==
    \A n \in Ids(model) :
        Nth(onnx_nodes, n).opkind \in {"Affine", "Convolution"} =>
            /\ Len(Nth(model, n).inputs) = 3
            /\ Preds(n)[2].opkind = "Const"
            /\ Preds(n)[3].opkind = "Const"

\* C16: in a graph whose Affine and Convolution nodes take Const nodes as
\* weight and bias, once the pass has completed without failure every
\* out_scale is 0, 7 or 14, every Affine and Convolution node has in_scale 7
\* and out_scale 14, and every ReLU node reading an Affine or Convolution
\* node is the 128-rescale variant with out_scale 7.
C16_ScaleLevels ==
    (ConstParameters /\ PassCompleted) =>
        \A n \in Ids(model) :
            LET node == Nth(onnx_nodes, n)
            IN  /\ node.out_scale \in {0, 7, 14}
                /\ node.opkind \in {"Affine", "Convolution"} =>
                       (node.in_scale = 7 /\ node.out_scale = 14)
                /\ (IsClip(n) /\ Preds(n)[1].opkind \in {"Affine", "Convolution"}) =>
                       (node.opkind = "ReLU128" /\ node.out_scale = 7)

\* The pass has completed over Source -> Convolution -> ReLU.
C16_Witness ==
    /\ ConstParameters
    /\ pc = "quantized"
    /\ \E n \in Ids(model) :
           /\ IsClip(n)
           /\ Preds(n)[1].opkind = "Convolution"
           /\ Preds(n)[1].out_scale = 14
           /\ Nth(onnx_nodes, n).opkind = "ReLU128"

====
